---- MODULE Spec2Model ----
(***************************************************************************)
(* muscan (main.py): a scan recorder that walks a directory tree and       *)
(* writes one file_data row per file and one scans row per run through a   *)
(* psycopg2 connection, and a reconciliation/copy step that anti-joins two *)
(* scans on a derived identity key.                                        *)
(*                                                                         *)
(* Text is modelled as a sequence of one-character strings.  A nullable    *)
(* column or Python Optional is a sequence of length 0 (None / NULL) or 1. *)
(***************************************************************************)
EXTENDS Integers, Sequences, FiniteSets, TLC

None == <<>>
Some(v) == <<v>>
IsNone(o) == o = <<>>

------------------------------------------------------------------------------
(* Bounds of the model *)

\* longest directory listing drawn for the scanned tree
MaxFiles == 2
\* number of datetime.now() readings a behaviour may take
MaxClock == 4
\* largest file_data table drawn for the reconciliation specification
MaxRows == 3
\* longest raw year text drawn, beside the named examples
MaxYearLen == 2

------------------------------------------------------------------------------
(* Program constants *)

\* file_data.extension VARCHAR(10)
ExtensionWidth == 10
\* "if process_count % 500 == 0"
ScanProgressEvery == 500
\* "if copied_files % 250 == 0"
CopyProgressEvery == 250
\* list_file_data --limit, default=25
DefaultLimit == 25
\* list_file_data --offset, default=0
DefaultOffset == 0
\* extension in {'plist', 'jpg'}
ExcludedExtensions == { <<"p","l","i","s","t">>, <<"j","p","g">> }
\* full_path.endswith('.DS_Store')
DSStore == <<".","D","S","_","S","t","o","r","e">>
\* the NUL character, which psycopg2 refuses to adapt into a string literal
NUL == "NUL"

------------------------------------------------------------------------------
(* str helpers *)

EndsWith(s, suffix) ==
    /\ Len(s) >= Len(suffix)
    /\ SubSeq(s, Len(s) - Len(suffix) + 1, Len(s)) = suffix

StartsWith(s, prefix) ==
    /\ Len(s) >= Len(prefix)
    /\ SubSeq(s, 1, Len(prefix)) = prefix

\* str.replace(ch, '')
RemoveChar(s, ch) ==
    LET Kept(c) == c # ch
    IN  SelectSeq(s, Kept)

\* str.split(ch)[0]: the text before the first ch, the whole text without one
BeforeFirst(s, ch) ==
    LET at == { i \in 1..Len(s) : s[i] = ch }
    IN  IF at = {} THEN s
        ELSE SubSeq(s, 1, (CHOOSE i \in at : \A j \in at : i <= j) - 1)

\* os.path.join(dirpath, filename) for a relative filename
PathJoin(dirpath, filename) ==
    IF dirpath = <<>> \/ EndsWith(dirpath, <<"/">>)
    THEN dirpath \o filename
    ELSE dirpath \o <<"/">> \o filename

\* os.path.splitext(filename)[1]: from the last dot on, unless the dot only
\* follows leading dots (or there is none)
SplitExt(filename) ==
    LET dots == { i \in 1..Len(filename) : filename[i] = "." }
    IN  IF dots = {} THEN <<>>
        ELSE LET d == CHOOSE i \in dots : \A j \in dots : j <= i
             IN  IF \E j \in 1..(d - 1) : filename[j] # "."
                 THEN SubSeq(filename, d, Len(filename))
                 ELSE <<>>

\* os.path.splitext(filename)[1][1:]
Extension(filename) ==
    LET e == SplitExt(filename)
    IN  IF e = <<>> THEN <<>> ELSE Tail(e)

\* the exclusion test without its .DS_Store clause
Excluded_extensionOnly(dirpath, filename) ==
    Extension(filename) \in ExcludedExtensions

\* the exclusion test of the walk loop
Excluded(dirpath, filename) ==
    \/ Extension(filename) \in ExcludedExtensions
    \/ EndsWith(PathJoin(dirpath, filename), DSStore)

------------------------------------------------------------------------------
(* int(year_tag) *)

\* A character outside ASCII is written as the token "U+XXXX" of its code
\* point; the vertical tab, for which the strings here have no escape, is
\* "U+000B".

Digits == <<"0","1","2","3","4","5","6","7","8","9">>

\* the other decimal digits int() reads (Unicode category Nd), one row per
\* script, each row in the order 0..9
UnicodeDigits ==
    <<
       <<"U+0660","U+0661","U+0662","U+0663","U+0664","U+0665","U+0666","U+0667","U+0668","U+0669">>,
       <<"U+06F0","U+06F1","U+06F2","U+06F3","U+06F4","U+06F5","U+06F6","U+06F7","U+06F8","U+06F9">>,
       <<"U+07C0","U+07C1","U+07C2","U+07C3","U+07C4","U+07C5","U+07C6","U+07C7","U+07C8","U+07C9">>,
       <<"U+0966","U+0967","U+0968","U+0969","U+096A","U+096B","U+096C","U+096D","U+096E","U+096F">>,
       <<"U+09E6","U+09E7","U+09E8","U+09E9","U+09EA","U+09EB","U+09EC","U+09ED","U+09EE","U+09EF">>,
       <<"U+0A66","U+0A67","U+0A68","U+0A69","U+0A6A","U+0A6B","U+0A6C","U+0A6D","U+0A6E","U+0A6F">>,
       <<"U+0AE6","U+0AE7","U+0AE8","U+0AE9","U+0AEA","U+0AEB","U+0AEC","U+0AED","U+0AEE","U+0AEF">>,
       <<"U+0B66","U+0B67","U+0B68","U+0B69","U+0B6A","U+0B6B","U+0B6C","U+0B6D","U+0B6E","U+0B6F">>,
       <<"U+0BE6","U+0BE7","U+0BE8","U+0BE9","U+0BEA","U+0BEB","U+0BEC","U+0BED","U+0BEE","U+0BEF">>,
       <<"U+0C66","U+0C67","U+0C68","U+0C69","U+0C6A","U+0C6B","U+0C6C","U+0C6D","U+0C6E","U+0C6F">>,
       <<"U+0CE6","U+0CE7","U+0CE8","U+0CE9","U+0CEA","U+0CEB","U+0CEC","U+0CED","U+0CEE","U+0CEF">>,
       <<"U+0D66","U+0D67","U+0D68","U+0D69","U+0D6A","U+0D6B","U+0D6C","U+0D6D","U+0D6E","U+0D6F">>,
       <<"U+0DE6","U+0DE7","U+0DE8","U+0DE9","U+0DEA","U+0DEB","U+0DEC","U+0DED","U+0DEE","U+0DEF">>,
       <<"U+0E50","U+0E51","U+0E52","U+0E53","U+0E54","U+0E55","U+0E56","U+0E57","U+0E58","U+0E59">>,
       <<"U+0ED0","U+0ED1","U+0ED2","U+0ED3","U+0ED4","U+0ED5","U+0ED6","U+0ED7","U+0ED8","U+0ED9">>,
       <<"U+0F20","U+0F21","U+0F22","U+0F23","U+0F24","U+0F25","U+0F26","U+0F27","U+0F28","U+0F29">>,
       <<"U+1040","U+1041","U+1042","U+1043","U+1044","U+1045","U+1046","U+1047","U+1048","U+1049">>,
       <<"U+1090","U+1091","U+1092","U+1093","U+1094","U+1095","U+1096","U+1097","U+1098","U+1099">>,
       <<"U+17E0","U+17E1","U+17E2","U+17E3","U+17E4","U+17E5","U+17E6","U+17E7","U+17E8","U+17E9">>,
       <<"U+1810","U+1811","U+1812","U+1813","U+1814","U+1815","U+1816","U+1817","U+1818","U+1819">>,
       <<"U+1946","U+1947","U+1948","U+1949","U+194A","U+194B","U+194C","U+194D","U+194E","U+194F">>,
       <<"U+19D0","U+19D1","U+19D2","U+19D3","U+19D4","U+19D5","U+19D6","U+19D7","U+19D8","U+19D9">>,
       <<"U+1A80","U+1A81","U+1A82","U+1A83","U+1A84","U+1A85","U+1A86","U+1A87","U+1A88","U+1A89">>,
       <<"U+1A90","U+1A91","U+1A92","U+1A93","U+1A94","U+1A95","U+1A96","U+1A97","U+1A98","U+1A99">>,
       <<"U+1B50","U+1B51","U+1B52","U+1B53","U+1B54","U+1B55","U+1B56","U+1B57","U+1B58","U+1B59">>,
       <<"U+1BB0","U+1BB1","U+1BB2","U+1BB3","U+1BB4","U+1BB5","U+1BB6","U+1BB7","U+1BB8","U+1BB9">>,
       <<"U+1C40","U+1C41","U+1C42","U+1C43","U+1C44","U+1C45","U+1C46","U+1C47","U+1C48","U+1C49">>,
       <<"U+1C50","U+1C51","U+1C52","U+1C53","U+1C54","U+1C55","U+1C56","U+1C57","U+1C58","U+1C59">>,
       <<"U+A620","U+A621","U+A622","U+A623","U+A624","U+A625","U+A626","U+A627","U+A628","U+A629">>,
       <<"U+A8D0","U+A8D1","U+A8D2","U+A8D3","U+A8D4","U+A8D5","U+A8D6","U+A8D7","U+A8D8","U+A8D9">>,
       <<"U+A900","U+A901","U+A902","U+A903","U+A904","U+A905","U+A906","U+A907","U+A908","U+A909">>,
       <<"U+A9D0","U+A9D1","U+A9D2","U+A9D3","U+A9D4","U+A9D5","U+A9D6","U+A9D7","U+A9D8","U+A9D9">>,
       <<"U+A9F0","U+A9F1","U+A9F2","U+A9F3","U+A9F4","U+A9F5","U+A9F6","U+A9F7","U+A9F8","U+A9F9">>,
       <<"U+AA50","U+AA51","U+AA52","U+AA53","U+AA54","U+AA55","U+AA56","U+AA57","U+AA58","U+AA59">>,
       <<"U+ABF0","U+ABF1","U+ABF2","U+ABF3","U+ABF4","U+ABF5","U+ABF6","U+ABF7","U+ABF8","U+ABF9">>,
       <<"U+FF10","U+FF11","U+FF12","U+FF13","U+FF14","U+FF15","U+FF16","U+FF17","U+FF18","U+FF19">>,
       <<"U+104A0","U+104A1","U+104A2","U+104A3","U+104A4","U+104A5","U+104A6","U+104A7","U+104A8","U+104A9">>,
       <<"U+10D30","U+10D31","U+10D32","U+10D33","U+10D34","U+10D35","U+10D36","U+10D37","U+10D38","U+10D39">>,
       <<"U+11066","U+11067","U+11068","U+11069","U+1106A","U+1106B","U+1106C","U+1106D","U+1106E","U+1106F">>,
       <<"U+110F0","U+110F1","U+110F2","U+110F3","U+110F4","U+110F5","U+110F6","U+110F7","U+110F8","U+110F9">>,
       <<"U+11136","U+11137","U+11138","U+11139","U+1113A","U+1113B","U+1113C","U+1113D","U+1113E","U+1113F">>,
       <<"U+111D0","U+111D1","U+111D2","U+111D3","U+111D4","U+111D5","U+111D6","U+111D7","U+111D8","U+111D9">>,
       <<"U+112F0","U+112F1","U+112F2","U+112F3","U+112F4","U+112F5","U+112F6","U+112F7","U+112F8","U+112F9">>,
       <<"U+11450","U+11451","U+11452","U+11453","U+11454","U+11455","U+11456","U+11457","U+11458","U+11459">>,
       <<"U+114D0","U+114D1","U+114D2","U+114D3","U+114D4","U+114D5","U+114D6","U+114D7","U+114D8","U+114D9">>,
       <<"U+11650","U+11651","U+11652","U+11653","U+11654","U+11655","U+11656","U+11657","U+11658","U+11659">>,
       <<"U+116C0","U+116C1","U+116C2","U+116C3","U+116C4","U+116C5","U+116C6","U+116C7","U+116C8","U+116C9">>,
       <<"U+11730","U+11731","U+11732","U+11733","U+11734","U+11735","U+11736","U+11737","U+11738","U+11739">>,
       <<"U+118E0","U+118E1","U+118E2","U+118E3","U+118E4","U+118E5","U+118E6","U+118E7","U+118E8","U+118E9">>,
       <<"U+11950","U+11951","U+11952","U+11953","U+11954","U+11955","U+11956","U+11957","U+11958","U+11959">>,
       <<"U+11C50","U+11C51","U+11C52","U+11C53","U+11C54","U+11C55","U+11C56","U+11C57","U+11C58","U+11C59">>,
       <<"U+11D50","U+11D51","U+11D52","U+11D53","U+11D54","U+11D55","U+11D56","U+11D57","U+11D58","U+11D59">>,
       <<"U+11DA0","U+11DA1","U+11DA2","U+11DA3","U+11DA4","U+11DA5","U+11DA6","U+11DA7","U+11DA8","U+11DA9">>,
       <<"U+16A60","U+16A61","U+16A62","U+16A63","U+16A64","U+16A65","U+16A66","U+16A67","U+16A68","U+16A69">>,
       <<"U+16AC0","U+16AC1","U+16AC2","U+16AC3","U+16AC4","U+16AC5","U+16AC6","U+16AC7","U+16AC8","U+16AC9">>,
       <<"U+16B50","U+16B51","U+16B52","U+16B53","U+16B54","U+16B55","U+16B56","U+16B57","U+16B58","U+16B59">>,
       <<"U+1D7CE","U+1D7CF","U+1D7D0","U+1D7D1","U+1D7D2","U+1D7D3","U+1D7D4","U+1D7D5","U+1D7D6","U+1D7D7">>,
       <<"U+1D7D8","U+1D7D9","U+1D7DA","U+1D7DB","U+1D7DC","U+1D7DD","U+1D7DE","U+1D7DF","U+1D7E0","U+1D7E1">>,
       <<"U+1D7E2","U+1D7E3","U+1D7E4","U+1D7E5","U+1D7E6","U+1D7E7","U+1D7E8","U+1D7E9","U+1D7EA","U+1D7EB">>,
       <<"U+1D7EC","U+1D7ED","U+1D7EE","U+1D7EF","U+1D7F0","U+1D7F1","U+1D7F2","U+1D7F3","U+1D7F4","U+1D7F5">>,
       <<"U+1D7F6","U+1D7F7","U+1D7F8","U+1D7F9","U+1D7FA","U+1D7FB","U+1D7FC","U+1D7FD","U+1D7FE","U+1D7FF">>,
       <<"U+1E140","U+1E141","U+1E142","U+1E143","U+1E144","U+1E145","U+1E146","U+1E147","U+1E148","U+1E149">>,
       <<"U+1E2F0","U+1E2F1","U+1E2F2","U+1E2F3","U+1E2F4","U+1E2F5","U+1E2F6","U+1E2F7","U+1E2F8","U+1E2F9">>,
       <<"U+1E950","U+1E951","U+1E952","U+1E953","U+1E954","U+1E955","U+1E956","U+1E957","U+1E958","U+1E959">>,
       <<"U+1FBF0","U+1FBF1","U+1FBF2","U+1FBF3","U+1FBF4","U+1FBF5","U+1FBF6","U+1FBF7","U+1FBF8","U+1FBF9">>
    >>

\* the rows that hold c
DigitRows(c) ==
    IF \E i \in 1..10 : Digits[i] = c THEN { Digits }
    ELSE { UnicodeDigits[r] : r \in { q \in DOMAIN UnicodeDigits :
                                        \E i \in 1..10 : UnicodeDigits[q][i] = c } }

IsDigit(c) == DigitRows(c) # {}
DigitVal(c) ==
    LET row == CHOOSE r \in DigitRows(c) : TRUE
    IN  (CHOOSE i \in 1..10 : row[i] = c) - 1

\* the characters int() skips before and after the number
Whitespace ==
    { " ", "\t", "\n", "\r", "\f", "U+000B", "U+0085", "U+00A0", "U+1680",
      "U+2000", "U+2001", "U+2002", "U+2003", "U+2004", "U+2005", "U+2006",
      "U+2007", "U+2008", "U+2009", "U+200A", "U+2028", "U+2029", "U+202F",
      "U+205F", "U+3000" }

IsSpace(c) == c \in Whitespace

RECURSIVE LStrip(_)
LStrip(s) == IF s # <<>> /\ IsSpace(Head(s)) THEN LStrip(Tail(s)) ELSE s

RECURSIVE RStrip(_)
RStrip(s) ==
    IF s # <<>> /\ IsSpace(s[Len(s)]) THEN RStrip(SubSeq(s, 1, Len(s) - 1)) ELSE s

\* digits with single underscores between them
IntBody(s) ==
    /\ s # <<>>
    /\ \A i \in 1..Len(s) : IsDigit(s[i]) \/ s[i] = "_"
    /\ IsDigit(s[1]) /\ IsDigit(s[Len(s)])
    /\ \A i \in 1..(Len(s) - 1) : ~(s[i] = "_" /\ s[i + 1] = "_")

\* A Python int has no width.  It is written here as the text str() gives
\* it: "-" for a negative number, then its ASCII digits without leading
\* zeros.

DropZeros(ds) ==
    LET kept == { i \in 1..Len(ds) : ds[i] # "0" \/ i = Len(ds) }
    IN  IF kept = {} THEN ds
        ELSE SubSeq(ds, CHOOSE i \in kept : \A j \in kept : i <= j, Len(ds))

\* the int that the digits of body, read in base ten, make under the sign
IntOf(sign, body) ==
    LET read == SelectSeq(body, IsDigit)
        ds   == DropZeros([i \in DOMAIN read |-> Digits[DigitVal(read[i]) + 1]])
    IN  IF sign = "-" /\ ds # <<"0">> THEN <<"-">> \o ds ELSE ds

\* sys.get_int_max_str_digits() of the interpreter's default configuration
\* (CPython 3.11; 3.10.7 and later): int() raises ValueError for a text of
\* more decimal digits, leading zeros counted, sign, underscores and
\* surrounding whitespace not.  An interpreter older than that, or one
\* started with PYTHONINTMAXSTRDIGITS=0, has no limit.
IntMaxStrDigits == 4300

\* int(s): Some(n), or None where Python raises ValueError
ParseInt(s) ==
    LET t    == RStrip(LStrip(s))
        sign == IF t # <<>> /\ t[1] \in {"+", "-"} THEN t[1] ELSE "+"
        body == IF t # <<>> /\ t[1] \in {"+", "-"} THEN Tail(t) ELSE t
    IN  IF IntBody(body) /\ Len(SelectSeq(body, IsDigit)) <= IntMaxStrDigits
        THEN Some(IntOf(sign, body))
        ELSE None

\* the year derivation of the walk loop; raw is tag.year (None or text)
DeriveYear(raw) ==
    IF IsNone(raw) \/ raw[1] = <<>> THEN None
    ELSE LET year_tag == BeforeFirst(raw[1], "-")
         IN  IF year_tag = <<>> THEN None
             ELSE ParseInt(RemoveChar(year_tag, " "))

------------------------------------------------------------------------------
(* The file system the commands run against *)

\* file_data.file_name, song_title, album_name, ... and scans.scan_name VARCHAR(255)
NameWidth == 255

Txt_m == <<"m">>
Txt_ms == <<"m","/","s">>

\* A Python float m * 10^e, written with one digit m (negative for a
\* negative number): the duration TinyTag computes, in seconds
Seconds(m, e) == <<m, e>>

NoTag == [title |-> None, album |-> None, artist |-> None, genre |-> None,
          year |-> None, duration |-> None]

\* A file of the tree: where it is, whether open() succeeds, what
\* TinyTag.is_supported answers, whether TinyTag.get raises on its content,
\* and the tag TinyTag.get returns otherwise.
File(dir, name, content, readable, supported, malformed, tag) ==
    [dir |-> dir, name |-> name, content |-> content, readable |-> readable,
     supported |-> supported, malformed |-> malformed, tag |-> tag]

F_song == File(Txt_m, <<"a",".","m","p","3">>, 1, TRUE, TRUE, FALSE,
               [NoTag EXCEPT !.title = Some(<<"T">>), !.album = Some(<<"X">>),
                             !.artist = Some(<<"R">>),
                             !.year = Some(<<"2","0","1","5","-","0","6">>),
                             !.duration = Some(Seconds(3, 0))])
F_untagged == File(Txt_m, <<"i",".","m","p","3">>, 2, TRUE, TRUE, FALSE, NoTag)
\* unreadable; its extension is ten letters and a trailing space
F_locked == File(Txt_ms, <<"b",".","a","b","c","d","e","f","g","h","i","j"," ">>,
                 3, FALSE, FALSE, FALSE, NoTag)
F_lockedSong == File(Txt_m, <<"k",".","m","p","3">>, 4, FALSE, TRUE, FALSE, NoTag)
F_broken == File(Txt_m, <<"d",".","m","p","3">>, 5, TRUE, TRUE, TRUE, NoTag)
F_longExt == File(Txt_m, <<"e",".","e","l","e","v","e","n","c","h","a","r","s">>,
                  6, TRUE, FALSE, FALSE, NoTag)
F_nulTitle == File(Txt_m, <<"g",".","m","p","3">>, 7, TRUE, TRUE, FALSE,
                   [NoTag EXCEPT !.title = Some(<<"T", NUL>>)])
F_thumb == File(Txt_m, <<"c",".","j","p","g">>, 8, TRUE, FALSE, FALSE, NoTag)
F_plist == File(Txt_ms, <<"x",".","p","l","i","s","t">>, 9, FALSE, FALSE, FALSE, NoTag)
F_dsStore == File(Txt_ms, DSStore, 10, TRUE, FALSE, FALSE, NoTag)
F_upperJpg == File(Txt_m, <<"h",".","J","P","G">>, 11, TRUE, FALSE, FALSE, NoTag)
\* tagged with a year that is an int and no INT
F_farYear == File(Txt_m, <<"f",".","m","p","3">>, 13, TRUE, TRUE, FALSE,
                  [NoTag EXCEPT !.title = Some(<<"T">>),
                                !.year = Some(<<"2","1","4","7","4","8","3","6","4","8">>)])

FileUniverse == { F_song, F_untagged, F_locked, F_lockedSong, F_broken, F_longExt,
                  F_nulTitle, F_thumb, F_plist, F_dsStore, F_upperJpg, F_farYear }

\* directory listings: sequences of distinct files, at most n long
RECURSIVE Listings(_)
Listings(n) ==
    IF n = 0 THEN { <<>> }
    ELSE LET shorter == Listings(n - 1)
         IN  shorter \cup { Append(l, f) : l \in { x \in shorter : Len(x) = n - 1 },
                                          f \in FileUniverse }

Distinct(l) == \A i, j \in 1..Len(l) : i # j => l[i] # l[j]

\* the components of a path: the texts between its slashes, empty ones
\* included
RECURSIVE Split(_)
Split(p) ==
    LET first == BeforeFirst(p, "/")
    IN  IF Len(first) = Len(p) THEN << p >>
        ELSE << first >> \o Split(SubSeq(p, Len(first) + 2, Len(p)))

\* the components joined by slashes again
RECURSIVE JoinSlash(_)
JoinSlash(comps) ==
    IF comps = <<>> THEN <<>>
    ELSE IF Len(comps) = 1 THEN comps[1]
    ELSE comps[1] \o <<"/">> \o JoinSlash(Tail(comps))

IsPrefix(a, b) == Len(a) <= Len(b) /\ SubSeq(b, 1, Len(a)) = a

\* the directory the command runs in, /w: the dir of a file of the tree is
\* written relative to it
Cwd == << <<"w">> >>

\* where the directory dir of the tree lies, as the names from / down
AbsDir(dir) == Cwd \o SelectSeq(Split(dir), LAMBDA c : c # <<>>)

\* os.walk goes top-down: the files of a directory come before the files of
\* the directories below it
TopDown(l) ==
    \A i, j \in 1..Len(l) :
        (l[i].dir # l[j].dir /\ IsPrefix(AbsDir(l[i].dir), AbsDir(l[j].dir))) => i < j

Trees == { l \in Listings(MaxFiles) : Distinct(l) /\ TopDown(l) }

FullPath(f) == PathJoin(f.dir, f.name)

ScanNames == { <<"s","1">>, <<"s","2">> }

\* a scan name one character longer than the column, that character a space
Name_padded == [i \in 1..(NameWidth + 1) |-> IF i <= NameWidth THEN "n" ELSE " "]
\* a scan name one character longer than the column
Name_tooLong == [i \in 1..(NameWidth + 1) |-> "n"]
\* the scan command lines tried: the music directory, the same written from
\* the working directory with a trailing slash, its subdirectory under the
\* padded name, the empty path, and a run under the name that is too long
ScanCommands == { <<Txt_m, <<"s","1">> >>, << <<".","/","m","/">>, <<"s","1">> >>,
                  <<Txt_ms, Name_padded>>, << <<>>, <<"s","1">> >>,
                  <<Txt_m, Name_tooLong>> }

------------------------------------------------------------------------------
(* State *)

VARIABLES
    fs,             \* the files on disk, in the order os.walk lists them
    scans,          \* committed rows of musician.scans
    file_data,      \* committed rows of musician.file_data
    txScans,        \* scans rows written by the open transaction
    txFiles,        \* file_data rows written by the open transaction
    txAborted,      \* the open transaction is in the failed state
    nextId,         \* next value of file_data's id sequence
    clock,          \* readings of datetime.now() so far
    pc,             \* "idle", or where the running command stands: "walk", "commit",
                    \* "report", "copy"
    scan_name,      \* walk_and_record: its argument
    walk,           \* walk_and_record: the files os.walk yields
    idx,            \* walk_and_record: position in walk
    process_count,
    taggable_count,
    error_count,
    results,        \* copy_diff_files: the fetched paths the loop has yet to visit
    total_files,
    copied_files,
    target,         \* the files of folder_name: name -> content copied there
    out,            \* what the running (or last) command printed
    exit_code,      \* how the last command ended; None while one runs or if killed
    completed,      \* history: full paths the latest scan run processed without error
    diffSeen,       \* history: what cur.fetchall() gave the copy run, the latest command
    copyLog         \* history: source paths shutil.copy2 copied in that copy run

scanLocals == <<scan_name, walk, idx, process_count, taggable_count, error_count>>
copyLocals == <<results, total_files, copied_files>>
history == <<completed, diffSeen, copyLog>>
store == <<scans, file_data>>
tx == <<txScans, txFiles, txAborted>>
vars == <<fs, scans, file_data, txScans, txFiles, txAborted, nextId, clock, pc,
          scan_name, walk, idx, process_count, taggable_count, error_count,
          results, total_files, copied_files, target, out, exit_code,
          completed, diffSeen, copyLog>>

Msg(kind, text, n, m) == [kind |-> kind, text |-> text, n |-> n, m |-> m]

\* the rows a statement of the open transaction sees
VisibleScans == scans \cup txScans
VisibleFiles == file_data \cup txFiles

\* there is a directory at d: / and those down to the working directory, and
\* every directory that holds a file of the tree, with those above it
IsDirectory(d) ==
    \/ IsPrefix(d, Cwd)
    \/ \E i \in 1..Len(fs) : IsPrefix(d, AbsDir(fs[i].dir))

\* the directory reached from the directory at by following the components
\* one after the other, as the kernel does: an empty component and . stay,
\* .. goes up (and stays at /), a name goes down into a directory there is;
\* None when a name is no directory
RECURSIVE Follow(_, _)
Follow(at, comps) ==
    IF comps = <<>> THEN Some(at)
    ELSE LET c == Head(comps)
         IN  IF c = <<>> \/ c = <<".">> THEN Follow(at, Tail(comps))
             ELSE IF c = <<".", ".">>
                  THEN Follow(IF at = <<>> THEN at ELSE SubSeq(at, 1, Len(at) - 1),
                              Tail(comps))
             ELSE IF IsDirectory(Append(at, c))
                  THEN Follow(Append(at, c), Tail(comps))
             ELSE None

\* where the components of a path start from: / for an absolute path
StartOf(path) == IF path[1] = "/" THEN <<>> ELSE Cwd

\* the directory a path names, None when it names none (the empty path names
\* none)
ResolveDir(path) ==
    IF path = <<>> THEN None ELSE Follow(StartOf(path), Split(path))

\* the file of the tree a path names, as its place in fs; {} when it names none
FilesAt(path) ==
    IF path = <<>> THEN {}
    ELSE LET comps == Split(path)
             parent == Follow(StartOf(path), SubSeq(comps, 1, Len(comps) - 1))
         IN  IF IsNone(parent) THEN {}
             ELSE { i \in 1..Len(fs) : /\ AbsDir(fs[i].dir) = parent[1]
                                       /\ fs[i].name = comps[Len(comps)] }

\* os.walk(path) visits the directory dir of the tree: path names a
\* directory, and dir is that one or lies below it
IsUnder(path, dir) ==
    /\ ~IsNone(ResolveDir(path))
    /\ IsPrefix(ResolveDir(path)[1], AbsDir(dir))

\* the dirpath os.walk(path) reports for the directory dir it visits: path
\* as it was written for the top, os.path.join(dirpath, name) for each
\* directory below it
DirPath(path, dir) ==
    LET below == SubSeq(AbsDir(dir), Len(ResolveDir(path)[1]) + 1, Len(AbsDir(dir)))
    IN  IF below = <<>> THEN path ELSE PathJoin(path, JoinSlash(below))

\* the files os.walk(path) visits among those of l, each with the dirpath
\* reported for its directory
RECURSIVE SelectUnder(_, _)
SelectUnder(l, path) ==
    IF l = <<>> THEN <<>>
    ELSE IF IsUnder(path, Head(l).dir)
         THEN << [Head(l) EXCEPT !.dir = DirPath(path, Head(l).dir)] >>
              \o SelectUnder(Tail(l), path)
         ELSE SelectUnder(Tail(l), path)

\* os.walk(path)
Walk(path) == SelectUnder(fs, path)

\* hashlib digest of a file's bytes
Sha256(content) == <<"sha256", content>>

\* a hasher that returns the digest of the nothing it read
calculate_sha256_emptyDigest(f) ==
    IF f.readable THEN Some(Sha256(f.content)) ELSE Some(Sha256(0))

\* calculate_sha256: the digest, or None when open/read raises OSError
calculate_sha256(f) == IF f.readable THEN Some(Sha256(f.content)) ELSE None

\* TinyTag.get raises: the file cannot be opened, or its tags cannot be parsed
ExtractRaises(f) == ~f.readable \/ f.malformed

ScanIdle ==
    /\ scan_name = <<>> /\ walk = <<>> /\ idx = 0
    /\ process_count = 0 /\ taggable_count = 0 /\ error_count = 0

Init ==
    /\ fs \in Trees
    /\ scans = {} /\ file_data = {}
    /\ txScans = {} /\ txFiles = {} /\ txAborted = FALSE
    /\ nextId = 1 /\ clock = 0
    /\ pc = "idle"
    /\ ScanIdle
    /\ results = <<>> /\ total_files = 0 /\ copied_files = 0
    /\ target = {}
    /\ out = <<>> /\ exit_code = None
    /\ completed = {} /\ diffSeen = <<>> /\ copyLog = <<>>

------------------------------------------------------------------------------
(* walk_and_record *)

HasNul(text) == \E i \in 1..Len(text) : text[i] = NUL

\* optional text column: NULL or text
OptHasNul(o) == ~IsNone(o) /\ HasNul(o[1])

\* a value does not fit VARCHAR(width) when characters other than spaces lie
\* beyond the width; spaces beyond it are cut off silently
Longer(text, width) == \E i \in (width + 1)..Len(text) : text[i] # " "
OptLonger(o, width) == ~IsNone(o) /\ Longer(o[1], width)

\* the value VARCHAR(width) keeps of a text that fits
Fit(text, width) == IF Len(text) > width THEN SubSeq(text, 1, width) ELSE text
OptFit(o, width) == IF IsNone(o) THEN o ELSE Some(Fit(o[1], width))

\* the row the INSERT INTO musician.file_data statement is given for file f;
\* tag is None when the file is not taggable
FileRow(f, tag, id) ==
    [id           |-> id,
     file_name    |-> f.name,
     full_path    |-> FullPath(f),
     extension    |-> Extension(f.name),
     song_title   |-> IF IsNone(tag) THEN None ELSE tag[1].title,
     album_name   |-> IF IsNone(tag) THEN None ELSE tag[1].album,
     album_artist |-> IF IsNone(tag) THEN None ELSE tag[1].artist,
     genre        |-> IF IsNone(tag) THEN None ELSE tag[1].genre,
     year         |-> IF IsNone(tag) THEN None ELSE DeriveYear(tag[1].year),
     duration     |-> IF IsNone(tag) THEN None ELSE tag[1].duration,
     taggable     |-> f.supported,
     scan_name    |-> scan_name,
     sha256_hash  |-> calculate_sha256(f)]

\* psycopg2 cannot adapt a str holding NUL: ValueError before anything is sent
AdaptRaises(row) ==
    \/ HasNul(row.file_name) \/ HasNul(row.full_path) \/ HasNul(row.extension)
    \/ OptHasNul(row.song_title) \/ OptHasNul(row.album_name)
    \/ OptHasNul(row.album_artist) \/ OptHasNul(row.genre)
    \/ HasNul(row.scan_name)

\* the server rejects a value that does not fit its VARCHAR(n) column
ValueTooLong(row) ==
    \/ Longer(row.file_name, NameWidth)
    \/ Longer(row.extension, ExtensionWidth)
    \/ OptLonger(row.song_title, NameWidth) \/ OptLonger(row.album_name, NameWidth)
    \/ OptLonger(row.album_artist, NameWidth) \/ OptLonger(row.genre, NameWidth)
    \/ Longer(row.scan_name, NameWidth)

\* the largest INT, 2^31 - 1, and the size of the smallest, -2^31
IntMax == <<"2","1","4","7","4","8","3","6","4","7">>
IntMinSize == <<"2","1","4","7","4","8","3","6","4","8">>

\* a <= b for two digit texts of one length
RECURSIVE DigitsLeq(_, _)
DigitsLeq(a, b) ==
    \/ a = <<>>
    \/ DigitVal(Head(a)) < DigitVal(Head(b))
    \/ Head(a) = Head(b) /\ DigitsLeq(Tail(a), Tail(b))

\* the int n is a value of the column year INT
InIntRange(n) ==
    LET size  == IF n[1] = "-" THEN Tail(n) ELSE n
        limit == IF n[1] = "-" THEN IntMinSize ELSE IntMax
    IN  Len(size) < Len(limit) \/ (Len(size) = Len(limit) /\ DigitsLeq(size, limit))

\* the float d is no value of the column duration REAL: it lies beyond the
\* largest REAL (3.4028235e38) or rounds to zero without being zero (below
\* half of 1.4e-45)
OutOfRealRange(d) ==
    LET m == IF d[1] < 0 THEN 0 - d[1] ELSE d[1]
        e == d[2]
    IN  /\ m # 0
        /\ \/ e >= 39 \/ (e = 38 /\ m >= 4)
           \/ e <= -47 \/ (e = -46 /\ m <= 7)

\* the float the column duration REAL gives back for d, the REAL nearest to
\* it written with the fewest digits: d itself, except among the smallest
\* values, which lie further apart than one-digit floats do
AsReal(d) ==
    LET m == IF d[1] < 0 THEN 0 - d[1] ELSE d[1]
        near == IF d[2] = -46 THEN Seconds(1, -45)
                ELSE IF d[2] = -45
                     THEN Seconds(CASE m = 2 -> 1 [] m = 5 -> 6 [] m = 9 -> 8 [] OTHER -> m, -45)
                ELSE Seconds(m, d[2])
    IN  IF m = 0 THEN d
        ELSE IF d[1] < 0 THEN Seconds(0 - near[1], near[2]) ELSE near

\* the server rejects a number its column cannot hold
NumberOutOfRange(row) ==
    \/ ~IsNone(row.year) /\ ~InIntRange(row.year[1])
    \/ ~IsNone(row.duration) /\ OutOfRealRange(row.duration[1])

\* the server refuses the INSERT INTO musician.file_data of the row
Refused(row) == ValueTooLong(row) \/ NumberOutOfRange(row)

\* the row musician.file_data holds after an INSERT the server accepts
StoredRow(row) ==
    [row EXCEPT !.file_name    = Fit(@, NameWidth),
                !.extension    = Fit(@, ExtensionWidth),
                !.song_title   = OptFit(@, NameWidth),
                !.album_name   = OptFit(@, NameWidth),
                !.album_artist = OptFit(@, NameWidth),
                !.genre        = OptFit(@, NameWidth),
                !.duration     = IF IsNone(@) THEN @ ELSE Some(AsReal(@[1])),
                !.scan_name    = Fit(@, NameWidth)]

\* the row musician.scans holds after the INSERT of a name that fits
NewSession(name, start) ==
    [scan_name |-> Fit(name, NameWidth), start_time |-> Some(start), end_time |-> None,
     num_files |-> None, num_taggable |-> None, num_errors |-> None]

\* the connection is closed: an open transaction is rolled back
CloseConnection ==
    /\ txScans' = {} /\ txFiles' = {} /\ txAborted' = FALSE

\* the process is gone: its locals with it
DropLocals ==
    /\ scan_name' = <<>> /\ walk' = <<>> /\ idx' = 0
    /\ process_count' = 0 /\ taggable_count' = 0 /\ error_count' = 0
    /\ results' = <<>> /\ total_files' = 0 /\ copied_files' = 0

\* SELECT scan_name FROM musician.scans WHERE scan_name = %s; cur.fetchone()
NameTaken(name) == \E r \in VisibleScans : r.scan_name = name

\* a table that holds any number of rows of one name
UniqueViolation_unenforced(name) == FALSE

\* scans.scan_name is UNIQUE: the server refuses a second row of the name
\* the column would keep
UniqueViolation(name) ==
    \E r \in VisibleScans : r.scan_name = Fit(name, NameWidth)

\* scan --path path --scan-name name, up to the start of the walk
StartScan(path, name) ==
    /\ pc = "idle"
    /\ IF NameTaken(name)
       THEN /\ out' = << Msg("exists", name, 0, 0) >>
            /\ exit_code' = Some(0)
            /\ UNCHANGED <<pc, clock, scanLocals, completed>>
            /\ CloseConnection
       ELSE IF Longer(name, NameWidth) \/ UniqueViolation(name)
       THEN \* the start time is read, then INSERT INTO musician.scans raises
            \* StringDataRightTruncation or UniqueViolation; nothing catches it
            /\ clock + 2 <= MaxClock
            /\ clock' = clock + 1
            /\ out' = << Msg("session_traceback", name, 0, 0) >>
            /\ exit_code' = Some(1)
            /\ UNCHANGED <<pc, scanLocals, completed>>
            /\ CloseConnection
       ELSE /\ clock + 2 <= MaxClock
            /\ clock' = clock + 1
            /\ txScans' = txScans \cup { NewSession(name, clock') }
            /\ scan_name' = name
            /\ walk' = Walk(path)
            /\ idx' = 1
            /\ process_count' = 0 /\ taggable_count' = 0 /\ error_count' = 0
            /\ pc' = "walk"
            /\ out' = <<>>
            /\ exit_code' = None
            /\ completed' = {}
            /\ UNCHANGED <<txFiles, txAborted>>
    /\ UNCHANGED <<fs, store, nextId, copyLocals, target, diffSeen, copyLog>>

\* except Exception: print, error_count += 1, next file
PerFileError(f, printed) ==
    /\ out' = Append(printed, Msg("error", f.name, 0, 0))
    /\ error_count' = error_count + 1
    /\ idx' = idx + 1
    /\ UNCHANGED pc

\* one pass of the loop body, from the exclusion test through cur.execute(INSERT)
ProcessFile ==
    /\ pc = "walk" /\ idx <= Len(walk)
    /\ LET f   == walk[idx]
           tag == IF f.supported /\ ~ExtractRaises(f) THEN Some(f.tag) ELSE None
           row == FileRow(f, tag, nextId)
           \* calculate_sha256 prints when it cannot read the file
           printed == IF IsNone(calculate_sha256(f))
                      THEN Append(out, Msg("could_not_hash", FullPath(f), 0, 0))
                      ELSE out
       IN  IF Excluded(f.dir, f.name)
           THEN /\ idx' = idx + 1
                /\ UNCHANGED <<pc, out, taggable_count, error_count, tx, nextId>>
           ELSE IF f.supported /\ ExtractRaises(f)
           THEN /\ PerFileError(f, printed)
                /\ UNCHANGED <<taggable_count, tx, nextId>>
           ELSE /\ taggable_count' = IF f.supported THEN taggable_count + 1
                                                     ELSE taggable_count
                /\ IF AdaptRaises(row) \/ txAborted
                   THEN /\ PerFileError(f, printed)
                        /\ UNCHANGED <<tx, nextId>>
                   ELSE IF Refused(row)
                   THEN /\ PerFileError(f, printed)
                        /\ txAborted' = TRUE
                        /\ UNCHANGED <<txScans, txFiles, nextId>>
                   ELSE /\ txFiles' = txFiles \cup { StoredRow(row) }
                        /\ nextId' = nextId + 1
                        /\ pc' = "commit"
                        /\ out' = printed
                        /\ UNCHANGED <<idx, error_count, txScans, txAborted>>
    /\ UNCHANGED <<fs, store, clock, scan_name, walk, process_count, copyLocals,
                   target, exit_code, history>>

\* a commit that is put off to the end of the run
Commit_deferred == UNCHANGED <<scans, file_data, txScans, txFiles, txAborted>>

\* a commit that makes the file rows durable and leaves the session pending
Commit_filesOnly ==
    /\ file_data' = file_data \cup txFiles
    /\ txFiles' = {}
    /\ UNCHANGED <<scans, txScans, txAborted>>

\* conn.commit()
Commit ==
    /\ scans' = scans \cup txScans
    /\ file_data' = file_data \cup txFiles
    /\ txScans' = {} /\ txFiles' = {} /\ txAborted' = FALSE

\* conn.commit() after the INSERT, the counter and the progress line
CommitFile ==
    /\ pc = "commit"
    /\ Commit
    /\ process_count' = process_count + 1
    /\ out' = IF process_count' % ScanProgressEvery = 0
              THEN Append(out, Msg("progress", <<>>, process_count', 0))
              ELSE out
    /\ completed' = completed \cup { FullPath(walk[idx]) }
    /\ idx' = idx + 1
    /\ pc' = "walk"
    /\ UNCHANGED <<fs, nextId, clock, scan_name, walk, taggable_count, error_count,
                   copyLocals, target, exit_code, diffSeen, copyLog>>

\* an update that writes the processed counter as num_taggable
CompleteSession_taggableIsProcessed(r, end) ==
    IF r.scan_name = scan_name
    THEN [r EXCEPT !.end_time = Some(end), !.num_files = Some(process_count),
                   !.num_taggable = Some(process_count),
                   !.num_errors = Some(error_count)]
    ELSE r

\* SET end_time, num_files, num_taggable, num_errors WHERE scan_name = %s
CompleteSession(r, end) ==
    IF r.scan_name = scan_name
    THEN [r EXCEPT !.end_time = Some(end), !.num_files = Some(process_count),
                   !.num_taggable = Some(taggable_count),
                   !.num_errors = Some(error_count)]
    ELSE r

\* after the walk: the end time is read, then UPDATE musician.scans, commit
FinishScan ==
    /\ pc = "walk" /\ idx > Len(walk)
    /\ clock' = clock + 1
    /\ IF txAborted
       THEN \* the UPDATE raises InFailedSqlTransaction; nothing catches it
            /\ out' = Append(out, Msg("traceback", scan_name, 0, 0))
            /\ exit_code' = Some(1)
            /\ CloseConnection
            /\ pc' = "idle"
            /\ DropLocals
            /\ UNCHANGED store
       ELSE /\ scans' = { CompleteSession(r, clock') : r \in VisibleScans }
            /\ file_data' = VisibleFiles
            /\ txScans' = {} /\ txFiles' = {} /\ txAborted' = FALSE
            /\ pc' = "report"
            /\ UNCHANGED <<out, exit_code, scanLocals, copyLocals>>
    /\ UNCHANGED <<fs, nextId, target, history>>

\* the summary line, the return to main, conn.close() and the normal exit
ReportScan ==
    /\ pc = "report"
    /\ out' = Append(out, Msg("scan_complete", scan_name, process_count,
                              error_count))
    /\ exit_code' = Some(0)
    /\ pc' = "idle"
    /\ CloseConnection
    /\ DropLocals
    /\ UNCHANGED <<fs, store, nextId, clock, target, history>>

\* the process is killed while a command runs
Crash ==
    /\ pc # "idle"
    /\ pc' = "idle"
    /\ CloseConnection
    /\ DropLocals
    /\ out' = Append(out, Msg("killed", scan_name, 0, 0))
    /\ UNCHANGED <<fs, store, nextId, clock, target, exit_code, history>>

------------------------------------------------------------------------------
(* list_diff and copy_diff_files *)

\* COALESCE(a, b) of two nullable values
Coalesce(a, b) == IF IsNone(a) THEN b ELSE a

\* CONCAT(a, b): NULL arguments are ignored, the result is never NULL
Concat(a, b) ==
    (IF IsNone(a) THEN <<>> ELSE a[1]) \o (IF IsNone(b) THEN <<>> ELSE b[1])

\* CONCAT(COALESCE(song_title, file_name), album_name)
IdentityKey(r) == Concat(Coalesce(r.song_title, Some(r.file_name)), r.album_name)

\* the join without its "AND dest.scan_name = %s"
JoinOn_anyScan(origin, dest, dest_scan) == IdentityKey(origin) = IdentityKey(dest)

\* the ON condition of the LEFT JOIN in copy_diff_files
JoinOn(origin, dest, dest_scan) ==
    /\ IdentityKey(origin) = IdentityKey(dest)
    /\ dest.scan_name = dest_scan

\* file_data origin LEFT JOIN file_data dest ON ...: a pair per match, and a
\* pair with a NULL dest for an origin row that has none
LeftJoin(table, dest_scan) ==
    { j \in { <<o, Some(d)>> : o \in table, d \in table } :
        JoinOn(j[1], j[2][1], dest_scan) }
    \cup { <<o, None>> : o \in { x \in table : \A d \in table : ~JoinOn(x, d, dest_scan) } }

\* WHERE origin.scan_name = %s AND dest.id IS NULL
DiffWhere(joined, origin_scan) ==
    /\ joined[1].scan_name = origin_scan
    /\ IsNone(joined[2])

\* the joined rows the query of copy_diff_files selects from
DiffRows(table, origin_scan, dest_scan) ==
    { j \in LeftJoin(table, dest_scan) : DiffWhere(j, origin_scan) }

\* the orders in which a cursor may return a set of rows
RECURSIVE Orderings(_)
Orderings(rows) ==
    IF rows = {} THEN { <<>> }
    ELSE UNION { { <<r>> \o q : q \in Orderings(rows \ {r}) } : r \in rows }

\* SELECT origin.full_path ...: cur.fetchall(), in one of the possible orders
DiffPaths(table, origin_scan, dest_scan) ==
    { [i \in DOMAIN q |-> q[i][1].full_path] :
        q \in Orderings(DiffRows(table, origin_scan, dest_scan)) }

\* The query of list_diff, clause by clause.  A joined row is a record of
\* the origin row and the dest row, the latter NULL where the LEFT JOIN
\* found no match.

\* ON CONCAT(COALESCE(origin.song_title, origin.file_name), origin.album_name)
\*    = CONCAT(COALESCE(dest.song_title, dest.file_name), dest.album_name)
\*    AND dest.scan_name = %s   (the first parameter, dest_scan)
CountOn(origin, dest, dest_scan) ==
    /\ Concat(Coalesce(origin.song_title, Some(origin.file_name)), origin.album_name)
         = Concat(Coalesce(dest.song_title, Some(dest.file_name)), dest.album_name)
    /\ dest.scan_name = dest_scan

\* FROM musician.file_data origin LEFT JOIN musician.file_data dest ON ...
CountFrom(table, dest_scan) ==
    UNION { IF \E dest \in table : CountOn(origin, dest, dest_scan)
            THEN { [origin |-> origin, dest |-> Some(dest)] :
                     dest \in { x \in table : CountOn(origin, x, dest_scan) } }
            ELSE { [origin |-> origin, dest |-> None] } : origin \in table }

\* WHERE origin.scan_name = %s AND dest.id IS NULL   (the second parameter,
\* origin_scan)
CountedRows(table, origin_scan, dest_scan) ==
    { j \in CountFrom(table, dest_scan) :
        j.origin.scan_name = origin_scan /\ IsNone(j.dest) }

\* a count over the joined side, which the WHERE clause leaves NULL
DiffCount_countsDest(table, origin_scan, dest_scan) ==
    Cardinality({ j \in CountedRows(table, origin_scan, dest_scan) : ~IsNone(j.dest) })

\* SELECT count(origin.*): the joined rows left, an origin row never being NULL
DiffCount(table, origin_scan, dest_scan) ==
    Cardinality(CountedRows(table, origin_scan, dest_scan))

\* os.path.exists(path): path names a file or a directory
PathExists(path) == FilesAt(path) # {} \/ ~IsNone(ResolveDir(path))

\* path names a directory
IsDir(path) == FilesAt(path) = {} /\ ~IsNone(ResolveDir(path))

FileAt(path) == fs[CHOOSE i \in FilesAt(path) : TRUE]

\* os.path.basename(path)
RECURSIVE Basename(_)
Basename(path) ==
    IF \E i \in 1..Len(path) : path[i] = "/" THEN Basename(Tail(path)) ELSE path

\* shutil.copy2(source_path, folder_name): the copy takes the source's name
CopyInto(folder, source_path) ==
    { t \in folder : t.name # Basename(source_path) }
    \cup { [name |-> Basename(source_path), content |-> FileAt(source_path).content] }

\* list_diff --origin-scan origin_scan --dest-scan dest_scan; no copy run is
\* the latest command any more
ListDiff(origin_scan, dest_scan) ==
    /\ pc = "idle"
    /\ out' = << Msg("diff_count", origin_scan \o <<",">> \o dest_scan,
                     DiffCount(VisibleFiles, origin_scan, dest_scan), 0) >>
    /\ exit_code' = Some(0)
    /\ diffSeen' = <<>> /\ copyLog' = <<>>
    /\ UNCHANGED <<fs, store, tx, nextId, clock, pc, scanLocals, copyLocals, target,
                   completed>>

\* copy_diff_files, up to the start of the loop
CopyStart(origin_scan, dest_scan) ==
    /\ pc = "idle"
    /\ \E fetched \in DiffPaths(VisibleFiles, origin_scan, dest_scan) :
          /\ results' = fetched
          /\ diffSeen' = fetched
          /\ total_files' = Len(fetched)
    /\ copied_files' = 0
    /\ copyLog' = <<>>
    /\ out' = <<>>
    /\ exit_code' = None
    /\ pc' = "copy"
    /\ UNCHANGED <<fs, store, tx, nextId, clock, scanLocals, target, completed>>

\* copied_files after one pass of the loop
CountCopied(count, existed) == count + 1

\* a loop that gives up at the first missing source
RestAfter_stopOnMissing(fetched, existed) == IF existed THEN Tail(fetched) ELSE <<>>

\* what the for loop has left to visit after one pass
RestAfter(fetched, existed) == Tail(fetched)

\* one pass of the loop over results
CopyStep ==
    /\ pc = "copy" /\ results # <<>>
    /\ LET source_path == Head(results)
       IN  IF PathExists(source_path)
              /\ (IsDir(source_path) \/ ~FileAt(source_path).readable)
           THEN \* shutil.copy2 raises IsADirectoryError or PermissionError;
                \* nothing catches it
                /\ out' = Append(out, Msg("traceback", source_path, 0, 0))
                /\ exit_code' = Some(1)
                /\ pc' = "idle"
                /\ DropLocals
                /\ CloseConnection
                /\ UNCHANGED <<target, copyLog>>
           ELSE /\ IF PathExists(source_path)
                   THEN /\ target' = CopyInto(target, source_path)
                        /\ copyLog' = Append(copyLog, source_path)
                   ELSE UNCHANGED <<target, copyLog>>
                /\ copied_files' = CountCopied(copied_files, PathExists(source_path))
                /\ out' =
                     LET o1 == IF PathExists(source_path) THEN out
                               ELSE Append(out, Msg("missing", source_path, 0, 0))
                     IN  IF copied_files' % CopyProgressEvery = 0
                         THEN Append(o1, Msg("progress", <<>>, copied_files', total_files))
                         ELSE o1
                /\ results' = RestAfter(results, PathExists(source_path))
                /\ UNCHANGED <<pc, exit_code, total_files, tx, scanLocals>>
    /\ UNCHANGED <<fs, store, nextId, clock, completed, diffSeen>>

\* the summary line after the loop
CopyDone ==
    /\ pc = "copy" /\ results = <<>>
    /\ out' = Append(out, Msg("done", <<>>, copied_files, total_files))
    /\ exit_code' = Some(0)
    /\ pc' = "idle"
    /\ DropLocals
    /\ CloseConnection
    /\ UNCHANGED <<fs, store, nextId, clock, target, history>>

\* a run without a command: the connection is opened and closed, nothing is
\* dispatched, nothing is printed, and the process ends normally
NoCommand ==
    /\ pc = "idle"
    /\ out' = <<>>
    /\ exit_code' = Some(0)
    /\ CloseConnection
    /\ UNCHANGED <<fs, store, nextId, clock, pc, scanLocals, copyLocals, target,
                   history>>

\* what argparse refuses (a missing required flag, an unknown command): the
\* message goes to stderr, no connection is opened, the status is 2
UsageError ==
    /\ pc = "idle"
    /\ out' = <<>>
    /\ exit_code' = Some(2)
    /\ UNCHANGED <<fs, store, tx, nextId, clock, pc, scanLocals, copyLocals, target,
                   history>>

\* init_db: the schema and both tables are created if they are not there;
\* on the store Init describes they are, and nothing changes
InitDb ==
    /\ pc = "idle"
    /\ Commit
    /\ out' = << Msg("initialized", <<>>, 0, 0) >>
    /\ exit_code' = Some(0)
    /\ diffSeen' = <<>> /\ copyLog' = <<>>
    /\ UNCHANGED <<fs, nextId, clock, pc, scanLocals, copyLocals, target, completed>>

\* SELECT extension, COUNT(*) ... GROUP BY extension, filtered by scan_name
\* when one is given (NULL: no filter)
ExtensionCounts(table, scan_name_arg) ==
    LET chosen == { r \in table :
                      IsNone(scan_name_arg) \/ r.scan_name = scan_name_arg[1] }
    IN  { << e, Cardinality({ r \in chosen : r.extension = e }) >> :
            e \in { r.extension : r \in chosen } }

\* ORDER BY COUNT(*) DESC: the orders the groups may come in, equal counts in
\* any order
RECURSIVE ByCountDesc(_)
ByCountDesc(groups) ==
    IF groups = {} THEN { <<>> }
    ELSE UNION { { <<g>> \o q : q \in ByCountDesc(groups \ {g}) } :
                   g \in { x \in groups : \A y \in groups : x[2] >= y[2] } }

\* exts [--scan-name scan_name_arg]
ListExtensions(scan_name_arg) ==
    /\ pc = "idle"
    /\ IF /\ ~IsNone(scan_name_arg) /\ scan_name_arg[1] # <<>>
          /\ { r \in VisibleFiles : r.scan_name = scan_name_arg[1] } = {}
       THEN out' = << Msg("no_records", scan_name_arg[1], 0, 0) >>
       ELSE \E q \in ByCountDesc(ExtensionCounts(VisibleFiles, scan_name_arg)) :
                out' = [i \in DOMAIN q |-> Msg("ext", q[i][1], q[i][2], 0)]
    /\ exit_code' = Some(0)
    /\ CloseConnection
    /\ diffSeen' = <<>> /\ copyLog' = <<>>
    /\ UNCHANGED <<fs, store, nextId, clock, pc, scanLocals, copyLocals, target,
                   completed>>

\* ORDER BY file_name DESC: the rows from the last name to the first under
\* the collation of the database, which the server fixes and the query
\* does not name.  A collation orders distinct names one way or the other;
\* which way differs between collations, letter by letter and for groups of
\* letters, so every order of the names is the order of some server.  Rows
\* of one name come together, in either order.
ByNameDesc(rows) ==
    { q \in Orderings(rows) :
        \A i, k \in DOMAIN q :
            (i < k /\ q[i].file_name = q[k].file_name)
               => \A j \in i..k : q[j].file_name = q[i].file_name }

\* LIMIT limit OFFSET offset
Page(q, limit, offset) ==
    SubSeq(q, offset + 1, IF offset + limit < Len(q) THEN offset + limit ELSE Len(q))

\* list_file_data --ext ext [--limit limit] [--offset offset]
ListFileData(ext, limit, offset) ==
    /\ pc = "idle"
    /\ IF limit < 0 \/ offset < 0
       THEN \* the server refuses a negative LIMIT or OFFSET; nothing catches it
            /\ out' = << Msg("query_traceback", ext, 0, 0) >>
            /\ exit_code' = Some(1)
       ELSE /\ \E page \in { Page(q, limit, offset) :
                              q \in ByNameDesc({ r \in VisibleFiles : r.extension = ext }) } :
                  out' = [i \in DOMAIN page |->
                            Msg("file_row", page[i].full_path, page[i].id, 0)]
            /\ exit_code' = Some(0)
    /\ CloseConnection
    /\ diffSeen' = <<>> /\ copyLog' = <<>>
    /\ UNCHANGED <<fs, store, nextId, clock, pc, scanLocals, copyLocals, target,
                   completed>>

\* the arguments drawn for the two listing commands
ExtsArgs == { None, Some(<<"s","1">>) }
ListExts == { <<>> }
\* --limit and --offset: left out, both given, and a limit the server refuses
ListPages == { <<DefaultLimit, DefaultOffset>>, <<1, 1>>, <<-1, DefaultOffset>> }

Next ==
    \/ \E c \in ScanCommands : StartScan(c[1], c[2])
    \/ ProcessFile
    \/ CommitFile
    \/ FinishScan
    \/ ReportScan
    \/ Crash
    \/ NoCommand
    \/ UsageError

Spec == Init /\ [][Next]_vars

------------------------------------------------------------------------------
(* Reconciliation over catalogues left by earlier scans *)

Txt_s1 == <<"s","1">>
Txt_s2 == <<"s","2">>
Txt_s3 == <<"s","3">>
\* the scans the commands are asked to compare; s3 is a bystander
DiffScanNames == { Txt_s1, Txt_s2 }

\* a row a completed scan of the file (dir, name) left behind
Scanned(id, scan, dir, name, title, album, readable) ==
    [row  |-> [id |-> id, file_name |-> name, full_path |-> PathJoin(dir, name),
               extension |-> Extension(name), song_title |-> title,
               album_name |-> album, album_artist |-> None, genre |-> None,
               year |-> None, duration |-> None, taggable |-> readable,
               scan_name |-> scan,
               sha256_hash |-> IF readable THEN Some(Sha256(id)) ELSE None],
     file |-> File(dir, name, id, readable, readable, FALSE,
                   [NoTag EXCEPT !.title = title, !.album = album])]

Catalogue ==
    { Scanned(1, Txt_s1, <<"p">>, <<"C">>, Some(<<"A">>), Some(<<"B">>), TRUE),
      Scanned(2, Txt_s1, <<"p">>, <<"A","B">>, None, None, TRUE),
      Scanned(3, Txt_s1, <<"p">>, <<"E">>, Some(<<"A">>), None, TRUE),
      Scanned(4, Txt_s1, <<"p">>, <<"F">>, None, None, FALSE),
      Scanned(5, Txt_s2, <<"q">>, <<"D">>, Some(<<"A","B">>), None, TRUE),
      Scanned(6, Txt_s2, <<"q">>, <<"A">>, None, Some(<<"B">>), TRUE),
      Scanned(7, Txt_s2, <<"q">>, <<"E">>, Some(<<"A">>), None, TRUE),
      Scanned(8, Txt_s3, <<"r">>, <<"D">>, Some(<<"A","B">>), None, TRUE) }

RECURSIVE SetToSeq(_)
SetToSeq(S) ==
    IF S = {} THEN <<>>
    ELSE LET x == CHOOSE y \in S : \A z \in S : y.content <= z.content
         IN  <<x>> \o SetToSeq(S \ {x})

\* the session row of a scan that ran to its end and left these rows
FinishedSession(name, rows) ==
    [scan_name |-> name, start_time |-> Some(0), end_time |-> Some(0),
     num_files |-> Some(Cardinality({ r \in rows : r.scan_name = name })),
     num_taggable |-> Some(Cardinality({ r \in rows : r.scan_name = name /\ r.taggable })),
     num_errors |-> Some(0)]

InitDiff ==
    /\ \E kept \in { S \in SUBSET Catalogue : Cardinality(S) <= MaxRows } :
          /\ file_data = { c.row : c \in kept }
          /\ scans = { FinishedSession(c.row.scan_name, { k.row : k \in kept }) : c \in kept }
          /\ \E present \in SUBSET kept : fs = SetToSeq({ c.file : c \in present })
    /\ txScans = {} /\ txFiles = {} /\ txAborted = FALSE
    /\ nextId = Cardinality(Catalogue) + 1 /\ clock = 0
    /\ pc = "idle"
    /\ ScanIdle
    /\ results = <<>> /\ total_files = 0 /\ copied_files = 0
    /\ target = {}
    /\ out = <<>> /\ exit_code = None
    /\ completed = {} /\ diffSeen = <<>> /\ copyLog = <<>>

NextDiff ==
    \/ \E origin_scan \in DiffScanNames, dest_scan \in DiffScanNames :
          ListDiff(origin_scan, dest_scan)
    \/ \E origin_scan \in DiffScanNames, dest_scan \in DiffScanNames :
          CopyStart(origin_scan, dest_scan)
    \/ CopyStep
    \/ CopyDone
    \/ Crash
    \/ InitDb
    \/ \E scan_name_arg \in ExtsArgs : ListExtensions(scan_name_arg)
    \/ \E ext \in ListExts, page \in ListPages :
          ListFileData(ext, page[1], page[2])

SpecDiff == InitDiff /\ [][NextDiff]_vars

------------------------------------------------------------------------------
(* Vocabulary of the properties *)

Printed(kind) == { k \in DOMAIN out : out[k].kind = kind }

Scanning == pc \in {"walk", "commit"}

\* the loop body gets as far as the INSERT for f
ReachesInsert(f) == ~Excluded(f.dir, f.name) /\ ~(f.supported /\ ExtractRaises(f))

\* the row the loop body builds for f
RowOf(f) == FileRow(f, IF f.supported THEN Some(f.tag) ELSE None, 0)

\* the INSERT for f raises because of f itself
InsertRaises(f) ==
    ReachesInsert(f) /\ (AdaptRaises(RowOf(f)) \/ Refused(RowOf(f)))

\* nothing about f makes its processing raise
Healthy(f) ==
    ReachesInsert(f) /\ ~AdaptRaises(RowOf(f)) /\ ~Refused(RowOf(f))

\* the name the rows of the running scan are kept under
KeptName == Fit(scan_name, NameWidth)

\* the committed rows of the running scan for file f
RecordsOf(f) ==
    { r \in file_data : r.scan_name = KeptName /\ r.full_path = FullPath(f) }

------------------------------------------------------------------------------
(* C1 *)

\* what a rejected scan does: the conflict is reported, the status is zero,
\* and nothing is written, walked, hashed or tagged
RejectedAsDuplicate(name) ==
    /\ out' = << Msg("exists", name, 0, 0) >>
    /\ exit_code' = Some(0)
    /\ pc' = "idle"
    /\ UNCHANGED <<store, tx, nextId, fs, scanLocals, target, completed>>

\* C1: a scan invoked under a name that is already in the scans table only
\* reports the conflict and writes nothing; and a scan invoked under the name
\* of the scan that has just run to its summary does the same, so that the
\* second of two runs under one name leaves the store as the first left it.
C1_DuplicateScanNameRejected ==
    /\ [][ \A c \in ScanCommands :
             ((\E r \in scans : r.scan_name = c[2]) /\ StartScan(c[1], c[2]))
                 => RejectedAsDuplicate(c[2]) ]_vars
    /\ [][ \A c \in ScanCommands :
             ((\E k \in Printed("scan_complete") : out[k].text = c[2])
                /\ StartScan(c[1], c[2]))
                 => RejectedAsDuplicate(c[2]) ]_vars

------------------------------------------------------------------------------
(* C2 *)

\* C2: when the INSERT of some file raises, the scan goes on: every later
\* file that does not itself fail is inserted and committed, and the run
\* ends with the session updated rather than with an exception.
C2_InsertFailureIsolated ==
    /\ Scanning =>
          \A i \in 1..(idx - 1), j \in 1..(idx - 1) :
              (j < i /\ InsertRaises(walk[j]) /\ Healthy(walk[i]))
                  => RecordsOf(walk[i]) # {}
    /\ Printed("traceback") = {}

------------------------------------------------------------------------------
(* C3 *)

AllScanNames == { Txt_s1, Txt_s2, Txt_s3 }

\* the identity key in the words of the design: the title if there is one,
\* else the file name, followed by the album, an absent album being empty
KeyText(r) ==
    (IF IsNone(r.song_title) THEN r.file_name ELSE r.song_title[1])
    \o (IF IsNone(r.album_name) THEN <<>> ELSE r.album_name[1])

\* the rows of origin_scan whose key no row of dest_scan has
AntiJoin(table, origin_scan, dest_scan) ==
    { r \in table :
        /\ r.scan_name = origin_scan
        /\ \A x \in table : x.scan_name = dest_scan => KeyText(x) # KeyText(r) }

\* C3: the query of list_diff and copy_diff_files yields exactly the rows
\* of the origin scan whose identity key no row of the destination scan has,
\* each of them once; an empty destination scan yields the whole origin scan.
\* The catalogue does not change under these commands: the query is compared
\* for every pair of names where list_diff has printed, and with what was
\* fetched where copy_diff_files has just fetched.
C3_DiffIsAntiJoin ==
    /\ Printed("diff_count") # {} =>
        \A o \in AllScanNames, d \in AllScanNames :
          LET rows   == DiffRows(file_data, o, d)
              wanted == AntiJoin(file_data, o, d)
          IN  /\ { j[1] : j \in rows } = wanted
              /\ Cardinality(rows) = Cardinality(wanted)
              /\ DiffCount(file_data, o, d) = Cardinality(wanted)
              /\ ({ r \in file_data : r.scan_name = d } = {}
                    => { j[1] : j \in rows } = { r \in file_data : r.scan_name = o })
    /\ pc = "copy" /\ results = diffSeen =>
          \E o \in DiffScanNames, d \in DiffScanNames :
              /\ Len(diffSeen) = Cardinality(AntiJoin(file_data, o, d))
              /\ { diffSeen[i] : i \in DOMAIN diffSeen }
                    = { r.full_path : r \in AntiJoin(file_data, o, d) }
    /\ \A k \in Printed("diff_count") :
          \E o \in DiffScanNames, d \in DiffScanNames :
              /\ out[k].text = o \o <<",">> \o d
              /\ out[k].n = Cardinality(AntiJoin(file_data, o, d))

\* list_diff s1 s2 counted an unmatched origin row while another origin row
\* was left out because a destination row without a title carries its key
C3_Witness ==
    /\ out = << Msg("diff_count", Txt_s1 \o <<",">> \o Txt_s2, 1, 0) >>
    /\ \E r \in file_data, x \in file_data :
          /\ r.scan_name = Txt_s1 /\ x.scan_name = Txt_s2
          /\ KeyText(r) = KeyText(x)
          /\ IsNone(x.song_title) /\ ~IsNone(r.song_title)

------------------------------------------------------------------------------
(* C4 *)

\* C4: the count in the final summary of copy_diff_files is the number of
\* sources that existed and were copied, out of the size of the diff.
C4_SummaryCountsCopies ==
    \A k \in Printed("done") :
        /\ out[k].n = Len(copyLog)
        /\ out[k].m = Len(diffSeen)

------------------------------------------------------------------------------
(* C5 *)

\* C5: a completed session's num_files is the number of file_data rows
\* committed under its name; a file whose processing raised is counted in the
\* error counter and has no row, committed or pending.
C5_FailedFilesNotRecorded ==
    /\ \A r \in scans :
          ~IsNone(r.end_time) =>
              r.num_files = Some(Cardinality({ f \in file_data :
                                                 f.scan_name = r.scan_name }))
    /\ Scanning =>
          /\ error_count = Cardinality(Printed("error"))
          /\ \A k \in Printed("error") :
                ~\E f \in VisibleFiles :
                    f.scan_name = KeptName /\ f.file_name = out[k].text
    /\ \A c \in Printed("scan_complete") :
          /\ out[c].m = Cardinality(Printed("error"))
          /\ \E r \in scans :
                /\ r.scan_name = Fit(out[c].text, NameWidth)
                /\ r.num_files = Some(out[c].n)
                /\ r.num_files = Some(Cardinality({ f \in file_data :
                                                      f.scan_name = r.scan_name }))
                /\ r.num_errors = Some(out[c].m)
          /\ \A k \in Printed("error") :
                ~\E f \in file_data :
                    /\ f.scan_name = Fit(out[c].text, NameWidth)
                    /\ f.file_name = out[k].text

------------------------------------------------------------------------------
(* C6 *)

\* an earlier file of the walk left the transaction in the failed state
FailedTransactionBefore(i) ==
    \E j \in 1..(i - 1) :
        /\ ReachesInsert(walk[j])
        /\ ~AdaptRaises(RowOf(walk[j]))
        /\ Refused(RowOf(walk[j]))

\* the only thing that goes wrong for walk[i] is that it cannot be read for hashing
HashFailsOnly(i) ==
    /\ ~walk[i].readable
    /\ Healthy(walk[i])
    /\ ~FailedTransactionBefore(i)

\* C6: a file that cannot be read for hashing, with nothing else failing for
\* it, is recorded with a NULL digest, committed, counted as processed and
\* not counted as an error.
C6_UnreadableFileRecorded ==
    Scanning =>
        /\ process_count = Cardinality(completed)
        /\ error_count = Cardinality(Printed("error"))
        /\ \A i \in 1..(idx - 1) :
              HashFailsOnly(i) =>
                  /\ RecordsOf(walk[i]) # {}
                  /\ \A r \in RecordsOf(walk[i]) : IsNone(r.sha256_hash)
                  /\ FullPath(walk[i]) \in completed
                  /\ \A k \in Printed("error") : out[k].text # walk[i].name

\* the walk has gone past an unreadable file and has no error so far
C6_Witness ==
    /\ Scanning
    /\ error_count = 0 /\ process_count >= 1
    /\ \E i \in 1..(idx - 1) : HashFailsOnly(i)
    /\ Printed("could_not_hash") # {}

------------------------------------------------------------------------------
(* C7 *)

\* C7: a scan run that passed the name check and was killed, at whatever
\* point, leaves a committed scans row under its name with a start time and
\* a NULL end time.
C7_InterruptedRunLeavesSession ==
    [][ (Scanning /\ Crash) =>
            \E r \in scans' :
                /\ r.scan_name = KeptName
                /\ ~IsNone(r.start_time)
                /\ IsNone(r.end_time) ]_vars

------------------------------------------------------------------------------
(* C8 *)

\* C8: every file the run processed without error has a committed row, also
\* after a kill; the open transaction never holds more than the one file
\* whose INSERT has run and whose commit has not.
C8_EachFileCommittedBeforeNext ==
    /\ \A p \in completed :
          \E r \in file_data :
              r.full_path = p /\ (Scanning => r.scan_name = KeptName)
    /\ \A k \in Printed("killed") :
          \A p \in completed :
              \E r \in file_data :
                  r.full_path = p /\ r.scan_name = Fit(out[k].text, NameWidth)
    /\ Scanning => process_count = Cardinality(completed)
    /\ Cardinality(txFiles) <= 1
    /\ pc = "walk" => txFiles = {}
    /\ pc = "commit" => \A r \in txFiles : r.full_path = FullPath(walk[idx])

\* a run was killed after a file was committed, and an INSERT was lost with it
C8_Witness ==
    /\ Printed("killed") # {}
    /\ completed # {}
    /\ nextId - 1 > Cardinality(file_data)

------------------------------------------------------------------------------
(* C9 *)

\* the files the design excludes
NamedForExclusion(f) ==
    \/ Extension(f.name) \in { <<"p","l","i","s","t">>, <<"j","p","g">> }
    \/ EndsWith(FullPath(f), <<".","D","S","_","S","t","o","r","e">>)

\* C9: no row, committed or pending, is ever that of a plist or jpg file or
\* of a path ending in .DS_Store, and the pass of the loop over such a file
\* changes no counter, prints nothing (it is not hashed) and writes nothing.
C9_ExcludedFilesIgnored ==
    /\ [](\A r \in VisibleFiles :
             /\ r.extension \notin { <<"p","l","i","s","t">>, <<"j","p","g">> }
             /\ ~EndsWith(r.full_path, <<".","D","S","_","S","t","o","r","e">>))
    /\ [][ (pc = "walk" /\ idx <= Len(walk) /\ NamedForExclusion(walk[idx])
              /\ pc' # "idle")
           => /\ idx' = idx + 1
              /\ UNCHANGED <<process_count, taggable_count, error_count, store, tx,
                             nextId, out, completed>> ]_vars

\* the walk has gone past an excluded, unreadable file and recorded another
C9_Witness ==
    /\ Scanning
    /\ process_count >= 1
    /\ \E i \in 1..(idx - 1) : NamedForExclusion(walk[i]) /\ ~walk[i].readable
    /\ Printed("could_not_hash") = {}

------------------------------------------------------------------------------
(* C10 *)

\* the fetched paths the loop has been through
Visited == SubSeq(diffSeen, 1, Len(diffSeen) - Len(results))

RECURSIVE Existing(_)
Existing(paths) ==
    IF paths = <<>> THEN <<>>
    ELSE IF PathExists(Head(paths)) THEN <<Head(paths)>> \o Existing(Tail(paths))
    ELSE Existing(Tail(paths))

\* C10: a missing source is reported and the loop goes on: every visited
\* path that exists has been copied into the folder, whether it comes before
\* or after a missing one; when the summary is printed that is every
\* existing path of the diff; and no abort is ever at a missing path.
C10_MissingSourceNotFatal ==
    /\ pc = "copy" =>
          /\ copyLog = Existing(Visited)
          /\ \A i \in DOMAIN Visited :
                ~PathExists(Visited[i]) =>
                    \E k \in Printed("missing") : out[k].text = Visited[i]
    /\ \A d \in Printed("done") :
          /\ copyLog = Existing(diffSeen)
          /\ \A i \in DOMAIN diffSeen :
                ~PathExists(diffSeen[i]) =>
                    \E k \in Printed("missing") : out[k].text = diffSeen[i]
    /\ \A k \in Printed("traceback") : PathExists(out[k].text)
    /\ \A i \in DOMAIN copyLog :
          \E t \in target : t.name = Basename(copyLog[i])

\* the summary was printed after a diff with a missing source between two
\* existing ones
C10_Witness ==
    /\ Printed("done") # {}
    /\ \E i, j, k \in DOMAIN diffSeen :
          /\ i < j /\ j < k
          /\ PathExists(diffSeen[i]) /\ ~PathExists(diffSeen[j])
          /\ PathExists(diffSeen[k])
    /\ Len(copyLog) = 2

------------------------------------------------------------------------------
(* C11 *)

\* TinyTag.get is called on f and raises
ExtractionFails(f) ==
    /\ ~NamedForExclusion(f)
    /\ f.supported
    /\ (f.malformed \/ ~f.readable)

\* the INSERT of f is rejected by the server
ServerRejects(f) ==
    /\ ~NamedForExclusion(f) /\ ~ExtractionFails(f)
    /\ ~AdaptRaises(RowOf(f)) /\ Refused(RowOf(f))

\* the session row of the running scan
OwnSession(r) == r.scan_name = KeptName

\* C11: a file on which tag extraction raises is counted as exactly one
\* error and gets no row; in a walk that holds such files the other files,
\* those on which nothing raises, are recorded; and the run over such a walk
\* ends with its session completed, not with an exception.
C11_ExtractFailureIsolated ==
    /\ [](Scanning =>
            /\ error_count = Cardinality(Printed("error"))
            /\ \A i \in 1..(idx - 1) :
                  ExtractionFails(walk[i]) =>
                      /\ ~\E r \in VisibleFiles :
                            r.scan_name = KeptName /\ r.full_path = FullPath(walk[i])
                      /\ Cardinality({ k \in Printed("error") :
                                         out[k].text = walk[i].name }) = 1
            /\ (\E j \in 1..(idx - 1) : ExtractionFails(walk[j])) =>
                  \A i \in 1..(idx - 1) : Healthy(walk[i]) => RecordsOf(walk[i]) # {})
    /\ [][ (FinishScan /\ \E i \in DOMAIN walk : ExtractionFails(walk[i])) =>
             /\ pc' = "report"
             /\ \E r \in scans' : OwnSession(r) /\ ~IsNone(r.end_time) ]_vars

------------------------------------------------------------------------------
(* C12 *)

SessionOpen(r) ==
    /\ ~IsNone(r.start_time) /\ IsNone(r.end_time)
    /\ IsNone(r.num_files) /\ IsNone(r.num_taggable) /\ IsNone(r.num_errors)

SessionClosed(r) ==
    /\ ~IsNone(r.start_time) /\ ~IsNone(r.end_time)
    /\ ~IsNone(r.num_files) /\ ~IsNone(r.num_taggable) /\ ~IsNone(r.num_errors)

\* C12: a scans row is either open (start time only) or closed (end time and
\* the three counters together), there is one row to a name, and the rows
\* change in two ways only: a new open row appears under a fresh name, or an
\* open row is closed, its name and start time kept.  A closed row, and
\* every committed row's name, stays for good.  The row of a run is written
\* the second time when the run completes: after the final UPDATE and commit
\* it is closed.
C12_SessionWrittenTwice ==
    /\ [](/\ \A r \in VisibleScans : SessionOpen(r) \/ SessionClosed(r)
          /\ \A r \in VisibleScans, q \in VisibleScans :
                r.scan_name = q.scan_name => r = q
          /\ pc = "report" => \E r \in scans : OwnSession(r) /\ SessionClosed(r))
    /\ [][ /\ \A r \in VisibleScans : SessionClosed(r) => r \in VisibleScans'
           /\ \A r \in scans : \E q \in scans' : q.scan_name = r.scan_name
           /\ \A q \in VisibleScans' \ VisibleScans :
                \/ /\ SessionOpen(q)
                   /\ ~\E r \in VisibleScans : r.scan_name = q.scan_name
                \/ /\ SessionClosed(q)
                   /\ \E r \in VisibleScans :
                         /\ SessionOpen(r)
                         /\ r.scan_name = q.scan_name
                         /\ r.start_time = q.start_time
                         /\ r \notin VisibleScans' ]_vars

------------------------------------------------------------------------------
(* C13 *)

\* C13: whatever runs came before (completed, rejected, killed, started
\* again under a name a killed run never got to commit), no two rows of
\* file_data share a scan name and a full path, and a file the running scan
\* has processed has exactly one row.
C13_OneRecordPerScanAndPath ==
    /\ \A r \in VisibleFiles, q \in VisibleFiles :
          (r.scan_name = q.scan_name /\ r.full_path = q.full_path) => r = q
    /\ Scanning =>
          \A i \in 1..(idx - 1) :
              FullPath(walk[i]) \in completed => Cardinality(RecordsOf(walk[i])) = 1

\* the same path is recorded under two scan names by completed scans, in a
\* history where a kill took an INSERT away
C13_Witness ==
    /\ \E r \in file_data, q \in file_data :
          r.full_path = q.full_path /\ r.scan_name # q.scan_name
    /\ nextId - 1 > Cardinality(file_data)
    /\ Printed("scan_complete") # {}

------------------------------------------------------------------------------
(* C14 *)

\* C14: the count list_diff prints for two scans is the number of paths
\* copy_diff_files fetches for them, in whatever order the cursor returns
\* them, and the fetched paths are those of the origin rows that list_diff
\* counted.
C14_CountModeMatchesPathMode ==
    /\ \A k \in Printed("diff_count") :
          \A o \in DiffScanNames, d \in DiffScanNames :
              out[k].text = o \o <<",">> \o d =>
                  \A q \in DiffPaths(file_data, o, d) :
                      /\ Len(q) = out[k].n
                      /\ { q[i] : i \in DOMAIN q }
                            = { j.origin.full_path : j \in CountedRows(file_data, o, d) }
    /\ pc = "copy" => total_files = Len(diffSeen)
    /\ pc = "copy" /\ results = diffSeen =>
          /\ \E o \in DiffScanNames, d \in DiffScanNames :
                /\ total_files = DiffCount(file_data, o, d)
                /\ { diffSeen[i] : i \in DOMAIN diffSeen }
                      = { j.origin.full_path : j \in CountedRows(file_data, o, d) }

\* list_diff counted two rows of s2 that s1 lacks
C14_Witness ==
    /\ out = << Msg("diff_count", Txt_s2 \o <<",">> \o Txt_s1, 2, 0) >>
    /\ \E r \in file_data : r.scan_name = Txt_s1

------------------------------------------------------------------------------
(* Scans of one tagged file, over the raw year texts *)

YearAlphabet == { "2", "0", "-", " ", "u", "\t", "_", "+" }

RECURSIVE Texts(_)
Texts(n) ==
    IF n = 0 THEN { <<>> }
    ELSE LET shorter == Texts(n - 1)
         IN  shorter \cup { Append(t, c) : t \in { x \in shorter : Len(x) = n - 1 },
                                          c \in YearAlphabet }

Year_iso == <<"2","0","1","5","-","0","6","-","0","1">>
Year_padded == <<" "," ","2","0","1","5"," ">>
Year_unknown == <<"u","n","k","n","o","w","n">>
Year_spaced == <<"2"," ","0","1","5">>
Year_tabbed == <<"2","\t","0","1","5">>
Year_signed == <<" ","+","2","_","0","1","5","\t">>
Year_arabic == <<"U+0662","U+0660","U+0661","U+0665">>
Year_fullwidth == <<"U+FF12","0","U+FF11","5","-","0","6">>
Year_return == <<"2","0","1","5","\r">>
Year_nbsp == <<"U+00A0","2","0","1","5","U+000B">>
Year_innerBlank == <<"2","0","U+2003","1","5">>
\* 2^31 - 1 and 2^31
Year_lastInt == <<"2","1","4","7","4","8","3","6","4","7">>
Year_pastInt == <<"0","2","1","4","7","4","8","3","6","4","8">>
\* one digit more than int() converts
Year_overLimit == [i \in 1..(IntMaxStrDigits + 1) |-> "1"]

YearTexts == Texts(MaxYearLen) \cup { Year_iso, Year_padded, Year_unknown, Year_spaced, Year_tabbed, Year_signed,
      Year_arabic, Year_fullwidth, Year_return, Year_nbsp, Year_innerBlank,
      Year_lastInt, Year_pastInt, Year_overLimit }

\* a readable, taggable file whose tag carries the raw year y
F_year(y) == File(Txt_m, <<"y",".","m","p","3">>, 12, TRUE, TRUE, FALSE,
                  [NoTag EXCEPT !.title = Some(<<"T">>), !.year = Some(y)])

\* durations at the two ends of REAL: the largest one-digit float that is
\* stored and the next, which is refused; the smallest that is stored (as
\* 1e-45) and the one before it, which is refused
DurationExamples == { Seconds(3, 38), Seconds(4, 38), Seconds(8, -46), Seconds(7, -46) }

\* a readable, taggable file of the duration d, without a year
F_track(d) == File(Txt_m, <<"t",".","m","p","3">>, 14, TRUE, TRUE, FALSE,
                   [NoTag EXCEPT !.title = Some(<<"T">>), !.duration = Some(d)])

InitYear ==
    /\ \/ \E y \in YearTexts : fs = << F_year(y) >>
       \/ \E d \in DurationExamples : fs = << F_track(d) >>
    /\ scans = {} /\ file_data = {}
    /\ txScans = {} /\ txFiles = {} /\ txAborted = FALSE
    /\ nextId = 1 /\ clock = 0
    /\ pc = "idle"
    /\ ScanIdle
    /\ results = <<>> /\ total_files = 0 /\ copied_files = 0
    /\ target = {}
    /\ out = <<>> /\ exit_code = None
    /\ completed = {} /\ diffSeen = <<>> /\ copyLog = <<>>

\* the scan of the music directory, run under either name
NextYear ==
    \/ \E name \in ScanNames : StartScan(Txt_m, name)
    \/ ProcessFile
    \/ CommitFile
    \/ FinishScan
    \/ ReportScan
    \/ Crash

SpecYear == InitYear /\ [][NextYear]_vars

------------------------------------------------------------------------------
(* C15 *)

\* the text before the first "-"
BeforeDash(t) ==
    LET dashes == { i \in DOMAIN t : t[i] = "-" }
    IN  IF dashes = {} THEN t
        ELSE SubSeq(t, 1, (CHOOSE i \in dashes : \A j \in dashes : i <= j) - 1)

\* t without its whitespace characters, wherever they stand
WithoutWhitespace(t) == SelectSeq(t, LAMBDA c : c \notin Whitespace)

\* c is the decimal digit of value v in some script
DigitOfValue(c, v) ==
    \/ c = Digits[v + 1]
    \/ \E r \in DOMAIN UnicodeDigits : c = UnicodeDigits[r][v + 1]

DecimalDigit(c) == CHOOSE v \in 0..9 : DigitOfValue(c, v)

\* an integer literal: an optional sign, then decimal digits that single
\* underscores may separate
IntegerLiteral(t) ==
    LET body == IF t # <<>> /\ t[1] = "+" THEN SubSeq(t, 2, Len(t)) ELSE t
    IN  /\ body # <<>>
        /\ \A i \in DOMAIN body :
              body[i] = "_" \/ \E v \in 0..9 : DigitOfValue(body[i], v)
        /\ body[1] # "_" /\ body[Len(body)] # "_"
        /\ ~ \E i \in 1..(Len(body) - 1) : body[i] = "_" /\ body[i + 1] = "_"

\* the number a literal stands for, in ASCII digits without leading zeros
LiteralValue(t) ==
    LET ds    == SelectSeq(t, LAMBDA c : c \notin {"+", "_"})
        ascii == [i \in DOMAIN ds |-> Digits[DecimalDigit(ds[i]) + 1]]
        solid == { i \in DOMAIN ascii : ascii[i] # "0" }
    IN  IF solid = {} THEN <<"0">>
        ELSE SubSeq(ascii, CHOOSE i \in solid : \A j \in solid : i <= j, Len(ascii))

\* the year the tag's raw year stands for: the text before the first "-",
\* its whitespace stripped, read as an integer; absent when that text is
\* empty or is no integer
ExpectedYear(raw) ==
    IF IsNone(raw) THEN None
    ELSE LET text == WithoutWhitespace(BeforeDash(raw[1]))
         IN  IF IntegerLiteral(text) THEN Some(LiteralValue(text)) ELSE None

TagOf(r) == (CHOOSE i \in DOMAIN fs : FullPath(fs[i]) = r.full_path)

\* C15: the year stored with a record is the integer read from the raw tag
\* year before its first "-" with the whitespace stripped; when that text is
\* empty or is no integer the year is absent, no per-file error is raised
\* and the file is recorded. "2015-06-01" and "  2015 " store 2015,
\* "unknown" and the empty text store an absent year.
C15_YearDerivedFromTag ==
    /\ \A r \in VisibleFiles :
          /\ r.year = ExpectedYear(fs[TagOf(r)].tag.year)
          /\ fs[TagOf(r)].tag.year \in {Some(Year_iso), Some(Year_padded)}
                => r.year = Some(<<"2","0","1","5">>)
          /\ fs[TagOf(r)].tag.year \in {Some(Year_unknown), Some(<<>>)}
                => r.year = None
    /\ (IsNone(ExpectedYear(fs[1].tag.year)) /\ IsNone(fs[1].tag.duration)) =>
          /\ Printed("error") = {}
          /\ error_count = 0
          /\ (pc = "walk" /\ idx > 1) => RecordsOf(walk[1]) # {}
          /\ \A k \in Printed("scan_complete") : out[k].m = 0

------------------------------------------------------------------------------
(* C16 *)

LowerChar(c) ==
    CASE c = "J" -> "j" [] c = "P" -> "p" [] c = "G" -> "g" [] c = "T" -> "t"
      [] c = "X" -> "x" [] c = "D" -> "d" [] c = "S" -> "s"
      [] OTHER -> c

Lower(t) == [i \in DOMAIN t |-> LowerChar(t[i])]

\* C16: every record a scan writes stores the extension of its file name
\* lower-cased and without the leading dot (as far as the column holds it)
C16_ExtensionLowerCased ==
    \A r \in VisibleFiles :
        /\ r.extension = Fit(Lower(Extension(r.file_name)), ExtensionWidth)
        /\ r.extension # <<>> => r.extension[1] # "."

------------------------------------------------------------------------------
(* C17 *)

\* C17: a run without a command prints usage and ends with a non-zero
\* status; every other command ends with status zero, whatever the number of
\* per-file errors counted
C17_ExitStatus ==
    /\ [][NoCommand => /\ \E k \in DOMAIN out' : out'[k].kind = "usage"
                       /\ exit_code' \notin {None, Some(0)}]_vars
    /\ [][~NoCommand /\ ~UsageError => exit_code' \in {None, Some(0)}]_vars

------------------------------------------------------------------------------
(* C18 *)

TaggableRecords(r) ==
    { f \in file_data : f.scan_name = r.scan_name /\ f.taggable }

\* the files of the walk whose tags were extracted
Extracted ==
    { i \in DOMAIN walk : /\ ~NamedForExclusion(walk[i])
                          /\ walk[i].supported
                          /\ ~ExtractionFails(walk[i]) }

\* C18: the num_taggable of a completed scan is the number of its records
\* whose taggable flag is true, and so is at most its num_files
C18_TaggableMatchesRecords ==
    \A r \in scans :
        SessionClosed(r) =>
            /\ r.num_taggable[1] = Cardinality(TaggableRecords(r))
            /\ r.num_taggable[1] <= r.num_files[1]

\* the files of the walk the loop body has been through
Behind == 1..(IF pc = "commit" THEN idx ELSE idx - 1)

\* C18, amended: the taggable counter of a scan is the number of files whose
\* tags were extracted, recorded or not; that is the number the final UPDATE
\* is given when the scan completes, and a row the UPDATE closes carries it.
\* A closed row's num_taggable lies between the number of the scan's taggable
\* records and that number plus num_errors, and equals the number of taggable
\* records when the scan counted no error.
C18_TaggableCountsExtractions ==
    /\ [](Scanning => taggable_count = Cardinality(Extracted \cap Behind))
    /\ [](pc = "report" => taggable_count = Cardinality(Extracted))
    /\ [](\A r \in scans :
            SessionClosed(r) =>
                /\ Cardinality(TaggableRecords(r)) <= r.num_taggable[1]
                /\ r.num_taggable[1] <= Cardinality(TaggableRecords(r)) + r.num_errors[1]
                /\ r.num_errors[1] = 0 =>
                      /\ r.num_taggable[1] = Cardinality(TaggableRecords(r))
                      /\ r.num_taggable[1] <= r.num_files[1])
    /\ [][\A r \in scans' \ scans :
            SessionClosed(r) => r.num_taggable[1] = Cardinality(Extracted)]_vars

\* a completed scan whose num_taggable exceeds its taggable records, and its
\* num_files
C18_Witness ==
    \E r \in scans :
        /\ SessionClosed(r)
        /\ r.num_taggable[1] > Cardinality(TaggableRecords(r))
        /\ r.num_taggable[1] > r.num_files[1]

------------------------------------------------------------------------------
(* C19 *)

\* the non-excluded files among the first n of the walk
Counted(n) == { i \in 1..n : ~NamedForExclusion(walk[i]) }

\* C19: throughout a scan process_count + error_count is the number of
\* non-excluded files whose processing has finished, and when the scan has
\* completed (the final UPDATE is committed) the num_files and num_errors of
\* its session add up to the number of non-excluded files under the root path
C19_EveryFileAccountedOnce ==
    /\ [](Scanning => process_count + error_count = Cardinality(Counted(idx - 1)))
    /\ [](pc = "report" =>
            \E r \in scans :
                /\ OwnSession(r) /\ SessionClosed(r)
                /\ r.num_files[1] + r.num_errors[1] = Cardinality(Counted(Len(walk))))

------------------------------------------------------------------------------
(* C20 *)

\* C20: in every committed state of the store, the state a kill leaves
\* included, each file_data row carries the scan name of a committed scans
\* row: no record is durable before or without its session
C20_RecordsHaveSession ==
    \A f \in file_data : \E r \in scans : r.scan_name = f.scan_name

\* a killed scan has left a committed record, and its session, still open
C20_Witness ==
    /\ pc = "idle" /\ Printed("killed") # {}
    /\ \E f \in file_data : \E r \in scans :
          r.scan_name = f.scan_name /\ SessionOpen(r)

====
